---- MODULE Spec2Model ----
(***************************************************************************)
(* The useQuery hook of label_studio/frontend/src/hooks/useQuery.ts (the   *)
(* first, six-status variant, lines 1-270): its reducer, its options       *)
(* merger, the request cycle with its transport calls, abort, reset and    *)
(* the mount effect with its cleanup.                                      *)
(*                                                                         *)
(* Two specifications are given.  Spec is the hook as it is written: the   *)
(* test of line 225, `state.status in [IDLE, LOADED, HYDRATED]`, is        *)
(* JavaScript's `in`, a test on the property keys of the array (JsIn), and *)
(* no status is such a key, so request() never enters its body.  SpecCycle *)
(* reads that test as the search for an element of the array, which spec   *)
(* section 4.4 takes it for (StatusListed), and so runs the transport      *)
(* calls of lines 195-231 and their settlement.                            *)
(***************************************************************************)
EXTENDS Integers, Sequences, FiniteSets, TLC

VARIABLES
  phase,          \* "rendered": first render done, effect not yet run; "mounted"; "unmounted"
  options,        \* the options argument the component passes to the hook
  mounted,        \* mounted.current
  state,          \* the reducer state [status, data, error]
  hasFetched,     \* hasFetched.current
  optionsRef,     \* optionsRef.current
  abortRef,       \* abortRef.current: NullValue, or the call whose AbortController it holds
  aborted,        \* abortRef.current.signal.aborted
  calls,          \* every transport invocation so far, in order, with what it was given
  pending,        \* the transport calls whose promise has not settled
  closureStatus,  \* state.status as captured by the current `request` callback
  nRequests,      \* request() invocations so far
  expected,       \* the options argument with every request() argument so far merged in, in order
  log,            \* the types of the actions dispatched since request() last entered its body
  nResets,        \* reset() invocations so far
  last,           \* the transport call whose promise settled in the last step, and how
  declared,       \* the last call of the update function by a transport function
  nAuto,          \* request() invocations made by the mount effect
  incoming,       \* the arguments updateOptions was applied to on its own, in order
  dispatched      \* the action queryReducer was last applied to on its own

vars == <<phase, options, mounted, state, hasFetched, optionsRef, abortRef, aborted,
          calls, pending, closureStatus, nRequests, expected, log, nResets, last, declared,
          nAuto, incoming, dispatched>>

(***************************************************************************)
(* Bounds                                                                  *)
(***************************************************************************)
MaxRequests == 2
MaxResets == 1

(***************************************************************************)
(* Values                                                                  *)
(***************************************************************************)
NullValue == 0
UndefinedValue == -1

\* The value of `last` after a step that settled no transport promise.
NoSettle == [call |-> NullValue, out |-> "none"]

Keys == {"page", "page_size", "ids"}

\* A query map: every key to its value, 0 for a key the object does not have.
Q(page, size, ids) == [k \in Keys |-> CASE k = "page" -> page
                                        [] k = "page_size" -> size
                                        [] OTHER -> ids]
NoKeys == Q(0, 0, 0)

\* QueryOptions: skip is skipInitialRequest ("unset" when the object has no such
\* property); qdef, hdef, hqdef say whether query, hydrate, hydrate.query are objects.
Opt(skip, qdef, q, hdef, hqdef, hq) ==
  [skip |-> skip, qdef |-> qdef, q |-> q, hdef |-> hdef, hqdef |-> hqdef, hq |-> hq]
EmptyOptions == Opt("unset", FALSE, NoKeys, FALSE, FALSE, NoKeys)

\* The value of `declared` while no transport function has called the update function.
NoDeclaration == [call |-> NullValue, hq |-> NoKeys]

\* The options a component passes to the hook.
PropsPool ==
  { Opt("unset", FALSE, NoKeys, FALSE, FALSE, NoKeys),
    Opt("true", TRUE, Q(1, 1, 0), FALSE, FALSE, NoKeys),
    Opt("true", TRUE, Q(1, 1, 0), TRUE, FALSE, NoKeys),
    Opt("unset", TRUE, Q(1, 1, 0), TRUE, TRUE, Q(0, 0, 1)) }

\* The arguments a caller passes to request(): none, and those of lines 186-189.
ArgPool ==
  { EmptyOptions,
    Opt("unset", TRUE, Q(2, 0, 0), FALSE, FALSE, NoKeys),
    Opt("unset", TRUE, Q(0, 2, 0), FALSE, FALSE, NoKeys) }

\* What a transport function passes to the update function it is given (lines 166-170).
DeclarePool ==
  { Opt("unset", FALSE, NoKeys, TRUE, TRUE, Q(0, 0, 2)) }

QueryStatus == {"IDLE", "LOADING", "LOADED", "HYDRATING", "HYDRATED", "ERROR"}
ActionTypes == {"LOADING", "LOADED", "HYDRATING", "HYDRATED", "ERROR", "RESET"}

\* The value of `dispatched` while the reducer has not been applied on its own.
NoAction == [type |-> "none", payload |-> UndefinedValue]

initialState == [status |-> "IDLE", data |-> NullValue, error |-> NullValue]

(***************************************************************************)
(* The reducer                                                             *)
(***************************************************************************)
\* queryActions whose RESET resets the status alone: {...state, status: IDLE} for
\* initialState at line 102.
queryActionsResetKeepingData(s, action) ==
  CASE action.type = "LOADING"   -> [s EXCEPT !.status = "LOADING"]
    [] action.type = "HYDRATING" -> [s EXCEPT !.status = "HYDRATING"]
    [] action.type = "LOADED"    -> [s EXCEPT !.status = "LOADED", !.data = action.payload]
    [] action.type = "HYDRATED"  -> [s EXCEPT !.status = "HYDRATED", !.data = action.payload]
    [] action.type = "ERROR"     -> [s EXCEPT !.status = "ERROR", !.error = action.payload]
    [] action.type = "RESET"     -> [s EXCEPT !.status = "IDLE"]

queryActions(s, action) ==
  CASE action.type = "LOADING"   -> [s EXCEPT !.status = "LOADING"]
    [] action.type = "HYDRATING" -> [s EXCEPT !.status = "HYDRATING"]
    [] action.type = "LOADED"    -> [s EXCEPT !.status = "LOADED", !.data = action.payload]
    [] action.type = "HYDRATED"  -> [s EXCEPT !.status = "HYDRATED", !.data = action.payload]
    [] action.type = "ERROR"     -> [s EXCEPT !.status = "ERROR", !.error = action.payload]
    [] action.type = "RESET"     -> initialState

\* `action.type in ACTIONS`: ACTIONS is a string enum, an object whose keys are its names.
queryReducer(s, action) ==
  IF action.type \in ActionTypes THEN queryActions(s, action) ELSE s

(***************************************************************************)
(* The options merger                                                      *)
(***************************************************************************)
\* { ...a, ...b } on query maps.
Spread(a, b) == [k \in Keys |-> IF b[k] # 0 THEN b[k] ELSE a[k]]

\* updateOptions whose hydrate.query spreads the stored outer query in place of the
\* stored hydrate.query: optionsRef.current.query for optionsRef.current.hydrate?.query
\* at line 139.
updateOptionsMixingQueries(cur, o) ==
  LET h  == o.hdef \/ cur.hdef
      hq == h /\ (o.hqdef \/ cur.hqdef)
  IN  [skip  |-> IF o.skip # "unset" THEN o.skip ELSE cur.skip,
       qdef  |-> TRUE,
       q     |-> Spread(cur.q, o.q),
       hdef  |-> h,
       hqdef |-> hq,
       hq    |-> IF hq THEN Spread(cur.q, o.hq) ELSE NoKeys]

\* updateOptions that keeps a hydrate object only when the argument supplies one:
\* `|| optionsRef.current.hydrate` left out of line 135.
updateOptionsDroppingStoredHydrate(cur, o) ==
  LET h  == o.hdef
      hq == h /\ (o.hqdef \/ cur.hqdef)
  IN  [skip  |-> IF o.skip # "unset" THEN o.skip ELSE cur.skip,
       qdef  |-> TRUE,
       q     |-> Spread(cur.q, o.q),
       hdef  |-> h,
       hqdef |-> hq,
       hq    |-> IF hq THEN Spread(cur.hq, o.hq) ELSE NoKeys]

updateOptions(cur, o) ==
  LET h  == o.hdef \/ cur.hdef
      hq == h /\ (o.hqdef \/ cur.hqdef)
  IN  [skip  |-> IF o.skip # "unset" THEN o.skip ELSE cur.skip,
       qdef  |-> TRUE,
       q     |-> Spread(cur.q, o.q),
       hdef  |-> h,
       hqdef |-> hq,
       hq    |-> IF hq THEN Spread(cur.hq, o.hq) ELSE NoKeys]

(***************************************************************************)
(* The hook's mutable cells as one record, for the operators below         *)
(***************************************************************************)
Cur ==
  [mounted |-> mounted, state |-> state, hasFetched |-> hasFetched,
   optionsRef |-> optionsRef, abortRef |-> abortRef, aborted |-> aborted,
   calls |-> calls, pending |-> pending, closureStatus |-> closureStatus, log |-> log]

Set(h) ==
  /\ mounted' = h.mounted
  /\ state' = h.state
  /\ hasFetched' = h.hasFetched
  /\ optionsRef' = h.optionsRef
  /\ abortRef' = h.abortRef
  /\ aborted' = h.aborted
  /\ calls' = h.calls
  /\ pending' = h.pending
  /\ closureStatus' = h.closureStatus
  /\ log' = h.log

dispatch(h, action) ==
  [h EXCEPT !.state = queryReducer(h.state, action), !.log = Append(h.log, action.type)]

\* One render of the component: line 123 stores the options argument again, and
\* `request` is memoised on state.status (line 233).
render(h) ==
  [h EXCEPT !.optionsRef = options, !.closureStatus = h.state.status]

(***************************************************************************)
(* request                                                                 *)
(***************************************************************************)
\* JavaScript's `key in array`: the array's property keys are its indices and
\* "length", and those it inherits from Array.prototype.
ArrayPrototypeKeys ==
  {"constructor", "at", "concat", "entries", "every", "filter", "find", "forEach",
   "includes", "indexOf", "join", "keys", "map", "pop", "push", "reduce", "slice",
   "some", "sort", "splice", "toString", "values"}
JsIn(key, arr) ==
  key \in {ToString(i - 1) : i \in DOMAIN arr} \cup {"length"} \cup ArrayPrototypeKeys

\* The array of line 225.
GuardArray == <<"IDLE", "LOADED", "HYDRATED">>

\* call(withHydrate) up to its await: lines 196-209.  cyc is the request()
\* invocation the call belongs to, arg that invocation's argument.
call(h, arg, withHydrate, cyc) ==
  LET h1 == [h EXCEPT !.optionsRef = updateOptions(h.optionsRef, arg)]
      o  == h1.optionsRef
  IN  IF ~h1.mounted \/ (withHydrate /\ ~o.hqdef) THEN h1
      ELSE LET h2 == dispatch(h1, [type |-> IF withHydrate THEN "HYDRATING" ELSE "LOADING",
                                   payload |-> UndefinedValue])
               id == Len(h2.calls) + 1
           IN  [h2 EXCEPT !.abortRef = id,
                          !.aborted = FALSE,
                          !.calls = Append(@, [hydrate |-> withHydrate,
                                               query |-> IF withHydrate THEN o.hq ELSE o.q,
                                               arg |-> arg, cyc |-> cyc]),
                          !.pending = @ \cup {id}]

\* request(arg) up to its first await: lines 225-226; test is the value of line 225.
request(h, arg, test, cyc) ==
  IF test THEN call([h EXCEPT !.log = <<>>], arg, FALSE, cyc) ELSE h

RequestWith(arg, test) ==
  /\ phase # "rendered"
  /\ nRequests < MaxRequests
  /\ Set(request(Cur, arg, test, nRequests + 1))
  /\ nRequests' = nRequests + 1
  /\ expected' = updateOptions(expected, arg)
  /\ last' = NoSettle
  /\ UNCHANGED <<phase, options, nResets, declared, nAuto, incoming, dispatched>>

Request(arg) == RequestWith(arg, JsIn(closureStatus, GuardArray))

(***************************************************************************)
(* abort, reset                                                            *)
(***************************************************************************)
\* abort() that also clears the fetched flag: hasFetched.current = false added to it.
abortClearingFetched(h) ==
  IF h.abortRef # NullValue THEN [h EXCEPT !.aborted = TRUE, !.hasFetched = FALSE] ELSE h

abort(h) ==
  IF h.abortRef # NullValue THEN [h EXCEPT !.aborted = TRUE] ELSE h

\* reset() that sets the fetched flag from the status it finds, in place of false:
\* hasFetched.current = state.status !== IDLE at line 246.
resetFromStatus(h) ==
  LET h1 == abort(h)
  IN  IF ~h1.mounted THEN h1
      ELSE dispatch([h1 EXCEPT !.hasFetched = (h1.state.status # "IDLE")],
                    [type |-> "RESET", payload |-> UndefinedValue])

reset(h) ==
  LET h1 == abort(h)
  IN  IF ~h1.mounted THEN h1
      ELSE dispatch([h1 EXCEPT !.hasFetched = FALSE], [type |-> "RESET", payload |-> UndefinedValue])

Abort ==
  /\ phase # "rendered"
  /\ Set(abort(Cur))
  /\ last' = NoSettle
  /\ UNCHANGED <<phase, options, nRequests, expected, nResets, declared, nAuto, incoming, dispatched>>

Reset ==
  /\ phase # "rendered"
  /\ nResets < MaxResets
  /\ Set(reset(Cur))
  /\ nResets' = nResets + 1
  /\ last' = NoSettle
  /\ UNCHANGED <<phase, options, nRequests, expected, declared, nAuto, incoming, dispatched>>

(***************************************************************************)
(* The mount effect, its cleanup, and re-renders                           *)
(***************************************************************************)
\* Lines 250-253: the effect of the first render.
\* The mount effect without the test of skipInitialRequest: line 251 left out.
MountWithIgnoringSkip(test) ==
  /\ phase = "rendered"
  /\ phase' = "mounted"
  /\ Set(request(Cur, EmptyOptions, test, nRequests + 1))
  /\ nRequests' = nRequests + 1
  /\ expected' = updateOptions(expected, EmptyOptions)
  /\ nAuto' = nAuto + 1
  /\ UNCHANGED <<options, nResets, last, declared, incoming, dispatched>>

MountWith(test) ==
  /\ phase = "rendered"
  /\ phase' = "mounted"
  /\ IF optionsRef.skip # "true"
       THEN /\ Set(request(Cur, EmptyOptions, test, nRequests + 1))
            /\ nRequests' = nRequests + 1
            /\ expected' = updateOptions(expected, EmptyOptions)
            /\ nAuto' = nAuto + 1
       ELSE /\ Set(Cur)
            /\ UNCHANGED <<nRequests, expected, nAuto, incoming, dispatched>>
  /\ UNCHANGED <<options, nResets, last, declared, incoming, dispatched>>

MountEffect == MountWith(JsIn(closureStatus, GuardArray))

\* Lines 254-257: the effect's cleanup.
cleanup(h) ==
  [abort(h) EXCEPT !.mounted = FALSE]

Unmount ==
  /\ phase = "mounted"
  /\ phase' = "unmounted"
  /\ Set(cleanup(Cur))
  /\ last' = NoSettle
  /\ UNCHANGED <<options, nRequests, expected, nResets, declared, nAuto, incoming, dispatched>>

\* A re-render of the live component (after a dispatch, or with its parent).
Render ==
  /\ phase = "mounted"
  /\ Set(render(Cur))
  /\ last' = NoSettle
  /\ UNCHANGED <<phase, options, nRequests, expected, nResets, declared, nAuto, incoming, dispatched>>

(***************************************************************************)
(* The hook as written                                                     *)
(***************************************************************************)
Init ==
  /\ phase = "rendered"
  /\ options \in PropsPool
  /\ mounted = TRUE
  /\ state = initialState
  /\ hasFetched = FALSE
  /\ optionsRef = options
  /\ abortRef = NullValue
  /\ aborted = FALSE
  /\ calls = <<>>
  /\ pending = {}
  /\ closureStatus = initialState.status
  /\ nRequests = 0
  /\ expected = options
  /\ log = <<>>
  /\ nResets = 0
  /\ last = NoSettle
  /\ declared = NoDeclaration
  /\ nAuto = 0
  /\ incoming = <<>>
  /\ dispatched = NoAction

Next ==
  \/ MountEffect
  \/ \E arg \in ArgPool : Request(arg)
  \/ Abort
  \/ Reset
  \/ Render
  \/ Unmount

Spec == Init /\ [][Next]_vars

(***************************************************************************)
(* The request cycle behind line 225                                       *)
(***************************************************************************)
\* Element search in the array of line 225: what spec section 4.4 takes the test for.
StatusListed(s) == \E i \in DOMAIN GuardArray : GuardArray[i] = s

\* How a transport promise settles: with a payload, with a payload that has an
\* error field, or by rejecting with an Error.
Outcomes == {"resolve", "resolveError", "reject"}

\* settle with the HYDRATED and LOADED branch entered whatever the payload holds:
\* line 211 left out.
settleIgnoringErrorField(h, k, out) ==
  LET h1 == [h EXCEPT !.pending = @ \ {k}]
  IN  IF out \in {"resolve", "resolveError"}
        THEN IF ~h1.mounted THEN h1
             ELSE dispatch([h1 EXCEPT !.hasFetched = TRUE],
                           [type |-> IF h1.calls[k].hydrate THEN "HYDRATED" ELSE "LOADED",
                            payload |-> k])
        ELSE IF ~h1.mounted THEN h1
             ELSE dispatch(h1, [type |-> "ERROR", payload |-> k])

\* settle without the tests of mounted.current: lines 215 and 220 left out.
settleAfterTeardown(h, k, out) ==
  LET h1 == [h EXCEPT !.pending = @ \ {k}]
  IN  IF out = "resolve"
        THEN dispatch([h1 EXCEPT !.hasFetched = TRUE],
                      [type |-> IF h1.calls[k].hydrate THEN "HYDRATED" ELSE "LOADED",
                       payload |-> k])
        ELSE dispatch(h1, [type |-> "ERROR", payload |-> k])

\* settle whose catch also clears the fetched flag: hasFetched.current = false added
\* before line 221.
settleClearingFetchedOnError(h, k, out) ==
  LET h1 == [h EXCEPT !.pending = @ \ {k}]
  IN  IF out = "resolve"
        THEN IF ~h1.mounted THEN h1
             ELSE dispatch([h1 EXCEPT !.hasFetched = TRUE],
                           [type |-> IF h1.calls[k].hydrate THEN "HYDRATED" ELSE "LOADED",
                            payload |-> k])
        ELSE IF ~h1.mounted THEN h1
             ELSE dispatch([h1 EXCEPT !.hasFetched = FALSE], [type |-> "ERROR", payload |-> k])

\* settle that never marks the hook as fetched: line 217 left out.
settleWithoutFetchedFlag(h, k, out) ==
  LET h1 == [h EXCEPT !.pending = @ \ {k}]
  IN  IF out = "resolve"
        THEN IF ~h1.mounted THEN h1
             ELSE dispatch(h1, [type |-> IF h1.calls[k].hydrate THEN "HYDRATED" ELSE "LOADED",
                                payload |-> k])
        ELSE IF ~h1.mounted THEN h1
             ELSE dispatch(h1, [type |-> "ERROR", payload |-> k])

\* call() from its await to its end, for call k settling with outcome out:
\* lines 209-222.  The payload of call k is k, the message of its error is k.
settle(h, k, out) ==
  LET h1 == [h EXCEPT !.pending = @ \ {k}]
  IN  IF out = "resolve"
        THEN IF ~h1.mounted THEN h1
             ELSE dispatch([h1 EXCEPT !.hasFetched = TRUE],
                           [type |-> IF h1.calls[k].hydrate THEN "HYDRATED" ELSE "LOADED",
                            payload |-> k])
        ELSE IF ~h1.mounted THEN h1
             ELSE dispatch(h1, [type |-> "ERROR", payload |-> k])

\* request() after `await call()`: lines 228-231, for the cycle of primary call k.
hydrateStep(h, k) ==
  IF h.optionsRef.hdef THEN call(h, h.calls[k].arg, TRUE, h.calls[k].cyc) ELSE h

\* The whole continuation that runs when the promise of call k settles.  A dispatch
\* made outside React's batching re-renders the component before dispatch returns
\* (rerender), so the render may come between the dispatch and line 229.
resume(h, k, out, rerender) ==
  LET h1 == settle(h, k, out)
      h2 == IF rerender THEN render(h1) ELSE h1
  IN  IF h.calls[k].hydrate THEN h2 ELSE hydrateStep(h2, k)

Settle(k, out, rerender) ==
  /\ k \in pending
  /\ rerender => phase = "mounted"
  /\ Set(resume(Cur, k, out, rerender))
  /\ last' = [call |-> k, out |-> out]
  /\ UNCHANGED <<phase, options, nRequests, expected, nResets, declared, nAuto, incoming, dispatched>>

\* The transport function of pending primary call k calls the update function it
\* was given (line 209 passes updateOptions), as that of lines 165-171 does.
Declare(k, o) ==
  /\ k \in pending
  /\ ~calls[k].hydrate
  /\ Set([Cur EXCEPT !.optionsRef = updateOptions(optionsRef, o)])
  /\ declared' = [call |-> k, hq |-> updateOptions(optionsRef, o).hq]
  /\ last' = NoSettle
  /\ UNCHANGED <<phase, options, nRequests, expected, nResets, nAuto, incoming, dispatched>>

RequestListed(arg) == RequestWith(arg, StatusListed(closureStatus))

MountEffectListed == MountWith(StatusListed(closureStatus))

NextCycle ==
  \/ MountEffectListed
  \/ \E arg \in ArgPool : RequestListed(arg)
  \/ Abort
  \/ Reset
  \/ Render
  \/ Unmount
  \/ \E k \in pending, out \in Outcomes, rerender \in BOOLEAN : Settle(k, out, rerender)
  \/ \E k \in pending, o \in DeclarePool : Declare(k, o)

SpecCycle == Init /\ [][NextCycle]_vars

\* The first element of the pair the hook returns (lines 260-264), built from hook
\* instance h at a render.
snapshot(h) ==
  [data |-> h.state.data, status |-> h.state.status, hasFetched |-> h.hasFetched,
   options |-> h.optionsRef]

(***************************************************************************)
(* updateOptions on its own: stored options drawn from StoredPool, and     *)
(* updateOptions applied to arguments drawn from IncomingPool.             *)
(***************************************************************************)
MaxMerges == 3

StoredPool ==
  { EmptyOptions,
    Opt("true",  TRUE, Q(1, 1, 0), FALSE, FALSE, NoKeys),
    Opt("unset", TRUE, Q(1, 0, 0), TRUE,  FALSE, NoKeys),
    Opt("unset", TRUE, Q(1, 1, 0), TRUE,  TRUE,  Q(0, 0, 1)),
    Opt("unset", TRUE, Q(0, 1, 2), TRUE,  TRUE,  Q(2, 0, 0)) }

IncomingPool ==
  { EmptyOptions,
    Opt("unset", TRUE,  Q(2, 0, 0), FALSE, FALSE, NoKeys),
    Opt("true",  FALSE, NoKeys,     TRUE,  FALSE, NoKeys),
    Opt("unset", FALSE, NoKeys,     TRUE,  TRUE,  Q(0, 0, 2)),
    Opt("unset", TRUE,  Q(0, 2, 0), TRUE,  TRUE,  Q(1, 0, 2)) }

\* The variables the hook's own steps use, at rest.
AtRest ==
  /\ phase = "rendered"
  /\ mounted = TRUE
  /\ hasFetched = FALSE
  /\ abortRef = NullValue
  /\ aborted = FALSE
  /\ calls = <<>>
  /\ pending = {}
  /\ closureStatus = initialState.status
  /\ nRequests = 0
  /\ log = <<>>
  /\ nResets = 0
  /\ last = NoSettle
  /\ declared = NoDeclaration
  /\ nAuto = 0

RestUnchanged ==
  UNCHANGED <<phase, options, mounted, hasFetched, abortRef, aborted, calls, pending,
              closureStatus, nRequests, expected, log, nResets, last, declared, nAuto>>

InitMerge ==
  /\ AtRest
  /\ options \in StoredPool
  /\ optionsRef = options
  /\ expected = options
  /\ state = initialState
  /\ incoming = <<>>
  /\ dispatched = NoAction

Merge(b) ==
  /\ Len(incoming) < MaxMerges
  /\ optionsRef' = updateOptions(optionsRef, b)
  /\ incoming' = Append(incoming, b)
  /\ RestUnchanged
  /\ UNCHANGED <<state, dispatched>>

NextMerge == \E b \in IncomingPool : Merge(b)

SpecMerge == InitMerge /\ [][NextMerge]_vars

(***************************************************************************)
(* queryReducer on its own: applied from initialState to actions of every  *)
(* type, and of a type that is none of ACTIONS, with and without payload.  *)
(***************************************************************************)
PayloadPool == {UndefinedValue, 1, 2}

InitReducer ==
  /\ AtRest
  /\ options = EmptyOptions
  /\ optionsRef = options
  /\ expected = options
  /\ state = initialState
  /\ incoming = <<>>
  /\ dispatched = NoAction

Reduce(action) ==
  /\ state' = queryReducer(state, action)
  /\ dispatched' = action
  /\ RestUnchanged
  /\ UNCHANGED <<optionsRef, incoming>>

NextReducer ==
  \E type \in ActionTypes \cup {"OTHER"}, payload \in PayloadPool :
    Reduce([type |-> type, payload |-> payload])

SpecReducer == InitReducer /\ [][NextReducer]_vars

(***************************************************************************)
(* Helpers of the properties                                               *)
(***************************************************************************)
IsPrefix(s, t) == Len(s) <= Len(t) /\ \A i \in 1..Len(s) : s[i] = t[i]
InLog(type) == \E i \in DOMAIN log : log[i] = type

\* The step is a request() invocation.
RequestStep == nRequests' = nRequests + 1
\* The step is a request() invocation that invoked the transport function.
IssuedStep == RequestStep /\ Len(calls') = Len(calls) + 1
\* The step settled the promise of a transport call, with outcome out.
SettleStep(out) == last'.out = out /\ last'.call \in pending
\* A dispatch of ERROR is the first thing the step did to the reducer.
ErrorDispatched == Len(log') > Len(log) /\ log'[Len(log) + 1] = "ERROR"

(***************************************************************************)
(* C1: whenever request() is called on a live hook whose status is IDLE,   *)
(* LOADED, HYDRATED or ERROR, the status becomes LOADING and the transport *)
(* function is invoked once, for the primary fetch, with the merged        *)
(* primary query and a fresh cancellation token.                           *)
(***************************************************************************)
C1_RequestStartsCycle ==
  [][(RequestStep /\ mounted /\ state.status \in {"IDLE", "LOADED", "HYDRATED", "ERROR"})
       => /\ state'.status = "LOADING"
          /\ Len(calls') = Len(calls) + 1
          /\ ~calls'[Len(calls')].hydrate
          /\ calls'[Len(calls')].query = updateOptions(optionsRef, calls'[Len(calls')].arg).q
          /\ abortRef' = Len(calls')
          /\ ~aborted']_vars

(***************************************************************************)
(* C2: a single request() made with options whose hydrate.query is not     *)
(* empty, whose transport calls succeed and which nothing disturbs,        *)
(* dispatches LOADING, LOADED, HYDRATING, HYDRATED in that order, and once *)
(* both calls have settled the status is and stays HYDRATED and the data   *)
(* is the payload of the hydration call, not that of the primary call.     *)
(***************************************************************************)
C2_Undisturbed ==
  /\ nRequests = 1
  /\ nResets = 0
  /\ options.hqdef /\ options.hq # NoKeys
  /\ ~InLog("ERROR")

C2_HydrationOrdering ==
  C2_Undisturbed =>
    /\ IsPrefix(log, <<"LOADING", "LOADED", "HYDRATING", "HYDRATED">>)
    /\ (mounted /\ pending = {}) =>
         /\ log = <<"LOADING", "LOADED", "HYDRATING", "HYDRATED">>
         /\ state.status = "HYDRATED"
         /\ Len(calls) = 2 /\ ~calls[1].hydrate /\ calls[2].hydrate
         /\ state.data = 2

(***************************************************************************)
(* C3: a single request() made with options that have no hydrate field,    *)
(* whose transport call succeeds, dispatches LOADING then LOADED and no    *)
(* more: the transport function is invoked once, the status stays LOADED   *)
(* and hasFetched is true.                                                 *)
(***************************************************************************)
C3_Undisturbed ==
  /\ nRequests = 1
  /\ nResets = 0
  /\ ~options.hdef
  /\ declared = NoDeclaration
  /\ ~InLog("ERROR")

C3_NoHydrationPath ==
  C3_Undisturbed =>
    /\ IsPrefix(log, <<"LOADING", "LOADED">>)
    /\ Len(calls) <= 1
    /\ \A k \in DOMAIN calls : ~calls[k].hydrate
    /\ (mounted /\ pending = {}) =>
         /\ log = <<"LOADING", "LOADED">>
         /\ Len(calls) = 1
         /\ state.status = "LOADED"
         /\ state.data = 1
         /\ hasFetched

C8_InFlightFromIdle == mounted /\ Len(calls) = 1 /\ pending = {1} /\ aborted

NumPrimary(cs) == Cardinality({k \in DOMAIN cs : ~cs[k].hydrate})

C13_SnapshotCarriesError ==
  LET snap == snapshot(Cur)
  IN  /\ {"status", "data", "error", "hasFetched"} \subseteq DOMAIN snap
      /\ snap.status = "ERROR" => snap.error = state.error

(***************************************************************************)
(* C14: applying updateOptions to the same argument twice in a row leaves  *)
(* the stored options as the first application left them:                  *)
(* merge(merge(a, b), b) = merge(a, b).                                    *)
(***************************************************************************)
C14_MergeIdempotent ==
  [][(/\ Len(incoming) >= 1
      /\ Len(incoming') = Len(incoming) + 1
      /\ incoming'[Len(incoming')] = incoming[Len(incoming)])
       => optionsRef' = optionsRef]_vars

C14_SameArgumentTwice ==
  /\ Len(incoming) = 2
  /\ incoming[1] = incoming[2]
  /\ incoming[1].hqdef /\ incoming[1].q # NoKeys
  /\ options.hqdef
  /\ optionsRef # options

(***************************************************************************)
(* C15: updateOptions(a, b) has a hydrate object if and only if a or b has *)
(* one, an empty one counting; its hydrate.query then has, key by key, the *)
(* value of b's hydrate.query where b gives one and that of a's elsewhere, *)
(* and its outer query is made of the outer queries of b and a in the same *)
(* way, so that no key passes from one map to the other.                   *)
(***************************************************************************)
C15_HydrateMergeRule ==
  [][Len(incoming') = Len(incoming) + 1
       => LET a == optionsRef
              b == incoming'[Len(incoming')]
              r == optionsRef'
          IN  /\ r.hdef <=> (a.hdef \/ b.hdef)
              /\ r.hqdef <=> (a.hqdef \/ b.hqdef)
              /\ \A k \in Keys :
                   /\ r.hq[k] = IF b.hq[k] # 0 THEN b.hq[k] ELSE a.hq[k]
                   /\ r.q[k] = IF b.q[k] # 0 THEN b.q[k] ELSE a.q[k]]_vars

C15_HydrateQueriesMerged ==
  /\ Len(incoming) = 1
  /\ options.hq = Q(2, 0, 0) /\ options.q = Q(0, 1, 2)
  /\ incoming[1].hq = Q(1, 0, 2) /\ incoming[1].q = Q(0, 2, 0)
  /\ optionsRef.hq = Q(1, 0, 2) /\ optionsRef.q = Q(0, 2, 2)

(***************************************************************************)
(* C16: whatever actions the reducer is applied to from the initial state, *)
(* the status of its result is one of IDLE, LOADING, LOADED, HYDRATING,    *)
(* HYDRATED, ERROR, and its result for a RESET action, whatever the state  *)
(* and the payload, is the initial state: status IDLE, no data, no error.  *)
(***************************************************************************)
C16_ReducerStaysInEnumeration ==
  [][/\ state'.status \in QueryStatus
     /\ dispatched'.type = "RESET"
          => state' = [status |-> "IDLE", data |-> NullValue, error |-> NullValue]]_vars

C16_ResetApplied ==
  /\ dispatched = [type |-> "RESET", payload |-> 2]
  /\ state = initialState

C18_InitialRequestOnce ==
  /\ nAuto = IF phase # "rendered" /\ options.skip # "true" THEN 1 ELSE 0
  /\ nAuto <= nRequests

C18_MountedAndUsed ==
  /\ phase = "unmounted"
  /\ nAuto = 1
  /\ nRequests = MaxRequests
  /\ nResets = MaxResets

====
